---------------------------- MODULE Spec2Model ----------------------------
(***************************************************************************)
(* Traversal engine of the graph package: AdjacencyList.BreadthFirst and   *)
(* AdjacencyList.DepthFirst (adj_RO.go), run by a caller that owns one     *)
(* graph, one FromList, one visited bitset and one path bitset and makes   *)
(* a bounded number of calls with them.                                    *)
(*                                                                         *)
(* Node ids are 0-based as in the code.  TLA+ sequences are 1-based, so    *)
(* node n's arc list is g[n + 1] and its arc with slice index x is         *)
(* g[n + 1][x + 1].                                                        *)
(***************************************************************************)
EXTENDS Integers, Sequences, FiniteSets, TLC

\* ------------------------------------------------------------------ bounds

\* Order of the graphs traversed by a single call, len(g).
NumNodes == 4

\* Order of the graphs on which the caller stages several calls.
StagedNodes == 3

\* Greatest number of arcs of a graph, g.ArcSize().
MaxArcs == 3

\* Greatest number of arcs of a graph on which several calls are staged.
StagedArcs == 2

\* Greatest number of calls the caller stages with the same graph and objects.
MaxCalls == 2

\* ------------------------------------------------------------- data model

\* NI values that are valid node ids of a graph of order n.
NodesOf(n) == 0 .. (n - 1)

RECURSIVE ArcLists(_, _, _)
\* Every way to give the first n nodes of a graph of order all at most m arcs
\* in total, all arcs in bounds (BoundsOk): parallel arcs and loops included.
ArcLists(n, m, all) ==
    IF n = 0 THEN {<<>>}
    ELSE UNION { { Append(rest, to) : rest \in ArcLists(n - 1, m - k, all),
                                      to \in [1 .. k -> NodesOf(all)] }
                 : k \in 0 .. m }

\* Every AdjacencyList of order n with at most m arcs.
GraphsOf(n, m) == ArcLists(n, m, n)

\* The graphs a single call is made on, and those several calls are staged on.
Graphs == GraphsOf(NumNodes, MaxArcs)
StagedGraphs == GraphsOf(StagedNodes, StagedArcs)

\* The arc list g[n] of node n of graph gr.
ArcsOf(gr, n) == gr[n + 1]

\* The zero PathEnd, the element of make([]PathEnd, n).
ZeroPathEnd == [From |-> 0, Len |-> 0]

\* A nil Paths slice.
NilPaths == <<>>

\* The zero FromList the caller declares before handing it to From().
ZeroFromList == [Paths |-> NilPaths, MaxLen |-> 0, Leaves |-> {}]

\* NewFromList(n): Paths allocated to length n, every entry zeroed.
NewFromList(n) ==
    [Paths |-> [v \in NodesOf(n) |-> ZeroPathEnd], MaxLen |-> 0, Leaves |-> {}]

\* Every order in which rand.Perm(n) can list the indexes 1..n.
Perms(n) == { p \in [1 .. n -> 1 .. n] : \A i, j \in 1 .. n : p[i] = p[j] => i = j }

\* The identity order of a plain range loop over n elements.
InOrder(n) == [i \in 1 .. n |-> i]

\* The orders a loop over n elements can take: the stored order without a
\* randomization source, any permutation with one.
Orders(rnd, n) == IF rnd THEN Perms(n) ELSE {InOrder(n)}

VARIABLES
    g,          \* the AdjacencyList every call is made on
    tree,       \* the caller's FromList, passed with From(&tree)
    visBits,    \* the caller's visited bitset, passed with Visited(&visBits)
    pathBits,   \* the caller's path bitset, passed with PathBits(&pathBits)
    budget,     \* number of calls the caller still makes
    pc,         \* "idle", "bfs", "dfs", "bfs_ret", "dfs_ret"
    cf,         \* the config of the current (or last) call
    f,          \* BreadthFirst: the FromList being written (rp is f.Paths)
    frontier,   \* BreadthFirst: nodes of the current level
    level,      \* BreadthFirst: Len given to nodes put on next
    next,       \* BreadthFirst: the frontier of the following level
    order,      \* BreadthFirst: order in which frontier indexes are taken
    pos,        \* BreadthFirst: position in order of the node taken next
    b,          \* DepthFirst: the visited bitset in use
    stack,      \* DepthFirst: the frames of df, innermost last
    log,        \* callbacks invoked and entries written by the current call
    pre,        \* the caller's objects as they were when the call started
    ret         \* the method called last that returns a value, and the value

vars == <<g, tree, visBits, pathBits, budget, pc, cf, f, frontier, level,
          next, order, pos, b, stack, log, pre, ret>>

bfsVars == <<f, frontier, level, next, order, pos>>
dfsVars == <<b, stack>>

\* ------------------------------------------------------------------ events

\* One entry of the log.  op is the callback invoked ("NodeVisitor",
\* "OkNodeVisitor", "ArcVisitor", "OkArcVisitor") or the store made ("Paths":
\* rp[n] = pe; "SetBit": b.SetBit(n, 1)).  ok is what a conditional callback
\* returned.  bits is the path bitset the callback could observe and rec the
\* nodes of the active df frames, outermost first, at that moment.
Event(op, n, x, ok, pe, bits, rec) ==
    [op |-> op, n |-> n, x |-> x, ok |-> ok, pe |-> pe, bits |-> bits, rec |-> rec]

\* The config a call starts from: &config{start: start} with the options applied.
Config(start, fromList, visited, path, rnd) ==
    [start |-> start, nodeVisitor |-> TRUE, okNodeVisitor |-> TRUE,
     arcVisitor |-> TRUE, okArcVisitor |-> TRUE,
     fromList |-> fromList, visBits |-> visited, pathBits |-> path, rand |-> rnd]

\* No method that returns a value has been called yet.
NoReturn == [op |-> "none", val |-> <<>>]

\* A method returned val.
Return(op, val) == [op |-> op, val |-> val]

\* The number of times the callback op was invoked on node n in the log lg.
Invoked(lg, op, n) ==
    Cardinality({ i \in 1 .. Len(lg) : lg[i].op = op /\ lg[i].n = n })

\* The call that returned last was a DepthFirst given Visited(&visBits).
StagedCall == pc = "dfs_ret" /\ cf.visBits

\* What the caller holds at the moment of a call, and what the DepthFirst
\* calls it has staged on its visited bitset so far have done: the number of
\* node visitor invocations on each node and the start nodes used.
Snapshot ==
    [tree |-> tree, visBits |-> visBits, pathBits |-> pathBits,
     visits |-> IF StagedCall
                THEN [v \in DOMAIN pre.visits |->
                         pre.visits[v] + Invoked(log, "NodeVisitor", v)]
                ELSE pre.visits,
     starts |-> IF StagedCall THEN pre.starts \cup {cf.start} ELSE pre.starts]

\* The caller has made no call yet on its graph gr.
NoSnapshot(gr) ==
    [tree |-> ZeroFromList, visBits |-> {}, pathBits |-> {},
     visits |-> [v \in NodesOf(Len(gr)) |-> 0], starts |-> {}]


\* ------------------------------------------------------------ BreadthFirst

\* The tree a call writes: a new one when no From option was given or the
\* caller's Paths is nil, the caller's own otherwise.
TakeFromList(fromList, t, n) ==
    IF ~fromList THEN NewFromList(n)
    ELSE IF t.Paths = NilPaths THEN NewFromList(n)
    ELSE t

\* The caller's tree after the call stored nf in the tree it writes: From(&tree)
\* makes f the caller's own FromList.
Shared(fromList, t, nf) == IF fromList THEN nf ELSE t

\* Mutant of StartPathEnd: the From field is left at its zero value.
StartPathEndZeroFrom(lvl) == [From |-> 0, Len |-> lvl]

\* rp[cf.start] = PathEnd{Len: level, From: -1}, with level = 1.
StartPathEnd(lvl) == [From |-> -1, Len |-> lvl]

\* Mutant of Unreached: the entry's Len is not tested.
UnreachedAlways(rp, nb) == TRUE

\* if rp[nb].Len == 0
Unreached(rp, nb) == rp[nb].Len = 0

\* Mutant of NewPathEnd: the Len recorded is the parent's.
NewPathEndParentLen(n, lvl) == [From |-> n, Len |-> lvl - 1]

\* Mutant of NewPathEnd: the parent is not recorded.
NewPathEndNoParent(n, lvl) == [From |-> -1, Len |-> lvl]

\* PathEnd{From: n, Len: level}
NewPathEnd(n, lvl) == [From |-> n, Len |-> lvl]

\* Mutant of NextLevel: the increment is left out.
NextLevelOmitted(lvl) == lvl

\* level++
NextLevel(lvl) == lvl + 1

\* Mutant of NextFrontier: the old frontier is kept behind the new one.
NextFrontierKept(fr, nx) == nx \o fr

\* frontier = next
NextFrontier(fr, nx) == nx

RECURSIVE ScanArcs(_, _, _, _, _)
\* for _, nb := range g[n]: the arcs to[k..] of node n, with acc the Paths,
\* next and log so far.
ScanArcs(to, k, n, lvl, acc) ==
    IF k > Len(to) THEN acc
    ELSE LET nb == to[k] IN
         IF Unreached(acc.rp, nb)
         THEN ScanArcs(to, k + 1, n, lvl,
                  [rp   |-> [acc.rp EXCEPT ![nb] = NewPathEnd(n, lvl)],
                   next |-> Append(acc.next, nb),
                   log  |-> Append(acc.log,
                               Event("Paths", nb, -1, TRUE, NewPathEnd(n, lvl), {}, <<>>))])
         ELSE ScanArcs(to, k + 1, n, lvl, acc)

\* Mutant of Stops: the callback's answer is not looked at.
StopsNever(supplied, ok) == FALSE

\* A conditional callback stops the traversal: it was supplied and returned false.
Stops(supplied, ok) == supplied /\ ~ok

\* Mutant of VisitNode: an arc visitor that was supplied is invoked too,
\* whichever traversal visits the node.
VisitNodeAndArc(c, n, ok, pe, bits, rec) ==
    (IF c.nodeVisitor
       THEN <<Event("NodeVisitor", n, -1, TRUE, pe, bits, rec)>> ELSE <<>>)
    \o (IF c.arcVisitor
       THEN <<Event("ArcVisitor", n, 0, TRUE, pe, bits, rec)>> ELSE <<>>)
    \o (IF c.okNodeVisitor
       THEN <<Event("OkNodeVisitor", n, -1, ok, pe, bits, rec)>> ELSE <<>>)

\* The callbacks invoked on a node being visited; ok is what the conditional
\* visitor returns, pe the node's PathEnd in the tree being written (BreadthFirst).
VisitNode(c, n, ok, pe, bits, rec) ==
    (IF c.nodeVisitor
       THEN <<Event("NodeVisitor", n, -1, TRUE, pe, bits, rec)>> ELSE <<>>)
    \o (IF c.okNodeVisitor
       THEN <<Event("OkNodeVisitor", n, -1, ok, pe, bits, rec)>> ELSE <<>>)

\* Top of the for loop: f.MaxLen = level; level++; var next []NI; and, with a
\* randomization source, cf.rand.Perm(len(frontier)).
LoopHead(c, nf, fr, lvl) ==
    /\ f' = [nf EXCEPT !.MaxLen = lvl]
    /\ tree' = Shared(c.fromList, tree, [nf EXCEPT !.MaxLen = lvl])
    /\ level' = NextLevel(lvl)
    /\ frontier' = fr
    /\ next' = <<>>
    /\ order' \in Orders(c.rand, Len(fr))
    /\ pos' = 1

\* What BreadthFirst does with the config c, up to the first pass of the loop.
BreadthFirstAs(c) ==
    /\ pc \in {"idle", "bfs_ret", "dfs_ret"}
    /\ budget > 0
    /\ budget' = budget - 1
    /\ pre' = Snapshot
    /\ LET t0 == TakeFromList(c.fromList, tree, Len(g))
           t1 == [t0 EXCEPT !.Paths[c.start] = StartPathEnd(1)]
       IN  /\ LoopHead(c, t1, <<c.start>>, 1)
           /\ log' = <<Event("Paths", c.start, -1, TRUE, StartPathEnd(1), {}, <<>>)>>
    /\ pc' = "bfs"
    /\ UNCHANGED <<g, visBits, pathBits, b, stack, ret>>

\* g.BreadthFirst(start, opt...) with any of the options, those BreadthFirst
\* lists as unsupported included.
BreadthFirstGiven(start, fromList, visited, path, rnd) ==
    /\ cf' = Config(start, fromList, visited, path, rnd)
    /\ BreadthFirstAs(Config(start, fromList, visited, path, rnd))

\* g.BreadthFirst(start, opt...) with supported options.
BreadthFirst(start, fromList, rnd) ==
    BreadthFirstGiven(start, fromList, FALSE, FALSE, rnd)

\* One node comes off the frontier: it is visited and, unless the conditional
\* visitor stops the traversal, its arcs are scanned.
BFSVisitAs(c, ok) ==
    /\ pc = "bfs"
    /\ pos <= Len(frontier)
    /\ LET n == frontier[order[pos]]
           seen == VisitNode(c, n, ok, f.Paths[n], {}, <<>>)
       IN  IF Stops(c.okNodeVisitor, ok)
           THEN /\ log' = log \o seen
                /\ pc' = "bfs_ret"
                /\ UNCHANGED <<f, tree, next, pos>>
           ELSE LET r == ScanArcs(ArcsOf(g, n), 1, n, level,
                             [rp |-> f.Paths, next |-> next, log |-> log \o seen])
                IN  /\ f' = [f EXCEPT !.Paths = r.rp]
                    /\ tree' = Shared(c.fromList, tree, [f EXCEPT !.Paths = r.rp])
                    /\ next' = r.next
                    /\ log' = r.log
                    /\ pos' = pos + 1
                    /\ pc' = "bfs"
    /\ UNCHANGED <<g, visBits, pathBits, budget, cf, frontier, level, order, b, stack,
                   pre, ret>>

\* The step of the current call, whose config is cf.
BFSVisit(ok) == BFSVisitAs(cf, ok)

\* The frontier is used up: stop when next is empty, otherwise go round again.
BFSNextAs(c) ==
    /\ pc = "bfs"
    /\ pos > Len(frontier)
    /\ IF Len(next) = 0
       THEN /\ pc' = "bfs_ret"
            /\ UNCHANGED <<tree, bfsVars>>
       ELSE /\ pc' = "bfs"
            /\ LoopHead(c, f, NextFrontier(frontier, next), level)
    /\ UNCHANGED <<g, visBits, pathBits, budget, cf, b, stack, log, pre, ret>>

\* The step of the current call, whose config is cf.
BFSNext == BFSNextAs(cf)


\* -------------------------------------------------------------- DepthFirst

\* Mutant of Bit: every bit reads as clear.
BitNever(bb, n) == FALSE

\* b.Bit(int(n)) != 0
Bit(bb, n) == n \in bb

\* Mutant of SetOnEntry: the node is not marked when it is entered.
SetOnEntrySkipped(bb, n) == bb

\* b.SetBit(int(n), 1) on entering a node, before any callback.
SetOnEntry(bb, n) == bb \cup {n}

\* Mutant of AlreadyVisited: the start node's bit is not tested.
AlreadyVisitedNever(c, vb, start) == FALSE

\* } else if b.Bit(int(cf.start)) != 0 { return }
AlreadyVisited(c, vb, start) == c.visBits /\ Bit(vb, start)

\* cf.pathBits.ClearAll()
ClearAll(pb) == {}

\* Mutant of ClearOnLeave: the node's path bit stays set.
ClearOnLeaveSkipped(pb, n) == pb

\* cf.pathBits.SetBit(int(n), 0) on leaving a node.
ClearOnLeave(pb, n) == pb \ {n}

\* Mutant of ArcReported: the target's visited bit is tested first and the
\* arc callbacks are skipped for a visited target.
ArcReportedIfNew(bb, to) == ~Bit(bb, to)

\* The arc callbacks come before the test of the target's visited bit, so an
\* arc is reported whatever the state of its target.
ArcReported(bb, to) == TRUE

\* Mutant of TargetVisited: the bit tested is the one of the node whose arcs
\* are being taken, not the one of the arc's target.
TargetVisitedOfSource(bb, n, to) == Bit(bb, n)

\* if b.Bit(int(to)) != 0 { continue }
TargetVisited(bb, n, to) == Bit(bb, to)

\* The nodes of the active frames of df, outermost first.
PathOf(stk) == [i \in 1 .. Len(stk) |-> stk[i].n]

\* Mutant of SharedBits: the call works on a copy of the caller's bitset.
SharedBitsCopied(c, vb, nb) == vb

\* The caller's visited bitset after the call stored nb in the one it uses.
SharedBits(c, vb, nb) == IF c.visBits THEN nb ELSE vb

\* df(n) up to its loop over the arcs of n: the state after entering n from
\* the frames stk, with ok the conditional node visitor's answer and ord the
\* order in which the arcs of n will be taken.  alive is false when df returns
\* false.
Enter(c, n, bb, pb, stk, lg, ok, ord) ==
    LET nb  == SetOnEntry(bb, n)
        npb == IF c.pathBits THEN pb \cup {n} ELSE pb
        rec == Append(PathOf(stk), n)
        obs == IF c.pathBits THEN npb ELSE {}
        lg1 == Append(lg, Event("SetBit", n, -1, TRUE, ZeroPathEnd, obs, rec))
        lg2 == lg1 \o VisitNode(c, n, ok, ZeroPathEnd, obs, rec)
    IN  [b |-> nb, pathBits |-> npb, log |-> lg2,
         alive |-> ~Stops(c.okNodeVisitor, ok),
         stack |-> Append(stk, [n |-> n, order |-> ord, pos |-> 1])]

\* The state df leaves behind, as the action's primed variables: when df
\* returned false every frame returns false in turn and DepthFirst returns.
Entered(c, r) ==
    /\ b' = r.b
    /\ visBits' = SharedBits(c, visBits, r.b)
    /\ pathBits' = r.pathBits
    /\ log' = r.log
    /\ IF r.alive
       THEN /\ stack' = r.stack
            /\ pc' = "dfs"
       ELSE /\ stack' = <<>>
            /\ pc' = "dfs_ret"

\* What DepthFirst does with the config c, up to the loop over the arcs of
\* the start node.
DepthFirstAs(c, ok) ==
    /\ pc \in {"idle", "bfs_ret", "dfs_ret"}
    /\ budget > 0
    /\ budget' = budget - 1
    /\ pre' = Snapshot
    /\ IF AlreadyVisited(c, visBits, c.start)
       THEN /\ pc' = "dfs_ret"
            /\ log' = <<>>
            /\ b' = visBits
            /\ stack' = <<>>
            /\ UNCHANGED <<visBits, pathBits>>
       ELSE \E ord \in Orders(c.rand, Len(ArcsOf(g, c.start))) :
               Entered(c, Enter(c, c.start,
                                IF c.visBits THEN visBits ELSE {},
                                IF c.pathBits THEN ClearAll(pathBits) ELSE pathBits,
                                <<>>, <<>>, ok, ord))
    /\ UNCHANGED <<g, tree, bfsVars, ret>>

\* g.DepthFirst(start, options...) with any of the options, the one
\* DepthFirst lists as unsupported included.
DepthFirstGiven(start, fromList, visited, path, rnd, ok) ==
    /\ cf' = Config(start, fromList, visited, path, rnd)
    /\ DepthFirstAs(Config(start, fromList, visited, path, rnd), ok)

\* g.DepthFirst(start, options...) with supported options.
DepthFirst(start, visited, path, rnd, ok) ==
    DepthFirstGiven(start, FALSE, visited, path, rnd, ok)

\* The callbacks invoked on the arc of node n with slice index x.
VisitArc(c, n, x, ok, bits, rec) ==
    (IF c.arcVisitor
       THEN <<Event("ArcVisitor", n, x, TRUE, ZeroPathEnd, bits, rec)>> ELSE <<>>)
    \o (IF c.okArcVisitor
       THEN <<Event("OkArcVisitor", n, x, ok, ZeroPathEnd, bits, rec)>> ELSE <<>>)

\* One pass of the loop over the arcs of the innermost frame's node: the arc
\* callbacks, the test of the target's visited bit and, for an unvisited
\* target, df(to) up to its own loop.
DFSArcAs(c, okArc, okNode) ==
    /\ pc = "dfs"
    /\ LET top == stack[Len(stack)] IN
       /\ top.pos <= Len(top.order)
       /\ LET n    == top.n
              x    == top.order[top.pos] - 1
              to   == ArcsOf(g, n)[x + 1]
              seen == IF ArcReported(b, to)
                      THEN VisitArc(c, n, x, okArc, IF c.pathBits THEN pathBits ELSE {},
                                    PathOf(stack))
                      ELSE <<>>
              on   == [stack EXCEPT ![Len(stack)].pos = top.pos + 1]
          IN  IF Stops(c.okArcVisitor, okArc)
              THEN /\ log' = log \o seen
                   /\ stack' = <<>>
                   /\ pc' = "dfs_ret"
                   /\ UNCHANGED <<b, visBits, pathBits>>
              ELSE IF TargetVisited(b, n, to)
              THEN /\ log' = log \o seen
                   /\ stack' = on
                   /\ pc' = "dfs"
                   /\ UNCHANGED <<b, visBits, pathBits>>
              ELSE \E ord \in Orders(c.rand, Len(ArcsOf(g, to))) :
                      Entered(c, Enter(c, to, b, pathBits, on, log \o seen, okNode, ord))
    /\ UNCHANGED <<g, tree, budget, cf, bfsVars, pre, ret>>

\* The step of the current call, whose config is cf.
DFSArc(okArc, okNode) == DFSArcAs(cf, okArc, okNode)

\* The loop over the arcs of the innermost frame's node is over: df clears the
\* node's path bit and returns true to its caller.
DFSLeaveAs(c) ==
    /\ pc = "dfs"
    /\ LET top == stack[Len(stack)] IN
       /\ top.pos > Len(top.order)
       /\ pathBits' = IF c.pathBits THEN ClearOnLeave(pathBits, top.n) ELSE pathBits
       /\ stack' = SubSeq(stack, 1, Len(stack) - 1)
       /\ pc' = IF Len(stack) = 1 THEN "dfs_ret" ELSE "dfs"
    /\ UNCHANGED <<g, tree, visBits, budget, cf, bfsVars, b, log, pre, ret>>

\* The step of the current call, whose config is cf.
DFSLeave == DFSLeaveAs(cf)

\* ------------------------------------------------------------ IsUndirected

\* Mutant of IsLoop: no arc is taken for a loop.
IsLoopNever(fr, to) == FALSE

\* if to == NI(fr) { continue // loop }
IsLoop(fr, to) == to = fr

\* The index i of the first u == NI(fr) in for i, u := range ut, 0 when the
\* range ends without one.
Reciprocal(ut, fr) ==
    IF \E i \in 1 .. Len(ut) : ut[i] = fr
    THEN CHOOSE i \in 1 .. Len(ut) : ut[i] = fr /\ \A j \in 1 .. (i - 1) : ut[j] # fr
    ELSE 0

\* Mutant of RemovePaired: the slice is cut without moving its last element
\* into the place of the one found.
RemovePairedCutOnly(ut, i) == SubSeq(ut, 1, Len(ut) - 1)

\* last := len(ut) - 1; ut[i] = ut[last]; unpaired[to] = ut[:last]
RemovePaired(ut, i) ==
    [k \in 1 .. (Len(ut) - 1) |-> IF k = i THEN ut[Len(ut)] ELSE ut[k]]

\* The body of the loop labelled arc, for the arc fr -> to.
PairArc(unpaired, fr, to) ==
    IF IsLoop(fr, to) THEN unpaired
    ELSE LET ut == unpaired[to + 1]
             i  == Reciprocal(ut, fr)
         IN  IF i # 0
             THEN [unpaired EXCEPT ![to + 1] = RemovePaired(ut, i)]
             ELSE [unpaired EXCEPT ![fr + 1] = Append(unpaired[fr + 1], to)]

RECURSIVE PairArcs(_, _, _, _)
\* for fr, to := range g { for _, to := range to {...} }, from the arc with
\* index k of node fr on.
PairArcs(gr, fr, k, unpaired) ==
    IF fr >= Len(gr) THEN unpaired
    ELSE IF k > Len(ArcsOf(gr, fr)) THEN PairArcs(gr, fr + 1, 1, unpaired)
    ELSE PairArcs(gr, fr, k + 1, PairArc(unpaired, fr, ArcsOf(gr, fr)[k]))

\* g.IsUndirected(): the triple (u, from, to) it returns.
IsUndirected(gr) ==
    LET unpaired == PairArcs(gr, 0, 1, [n \in 1 .. Len(gr) |-> <<>>])
        left     == { fr \in NodesOf(Len(gr)) : Len(unpaired[fr + 1]) > 0 }
    IN  IF left # {}
        THEN LET fr == CHOOSE n \in left : \A m \in left : n <= m
             IN  [u |-> FALSE, from |-> fr, to |-> unpaired[fr + 1][1]]
        ELSE [u |-> TRUE, from |-> -1, to |-> -1]

\* The caller asks whether its graph is undirected.
CallIsUndirected ==
    /\ pc \in {"graph", "undirected_ret"}
    /\ ret' = Return("IsUndirected", IsUndirected(g))
    /\ pc' = "isundirected_ret"
    /\ UNCHANGED <<g, tree, visBits, pathBits, budget, cf, bfsVars, dfsVars, log, pre>>

\* ---------------------------------------------------------------- FromList

\* Every assignment of a parent, or -1, to each node of a FromList of order n
\* that passes BoundsOk.
ParentLists(n) == [NodesOf(n) -> -1 .. (n - 1)]

RECURSIVE Walk(_, _, _)
\* The nodes met following the parent pointers from v up to a root, v
\* first, cut off after fuel nodes.
Walk(from, v, fuel) ==
    IF v = -1 \/ fuel = 0 THEN <<>>
    ELSE <<v>> \o Walk(from, from[v], fuel - 1)

\* The parent pointers from of a FromList of order n lead every node to a root.
Rooted(from, n) == \A v \in NodesOf(n) : Len(Walk(from, v, n + 1)) <= n

\* The parent lists of order n without a cycle.
Forests(n) == { from \in ParentLists(n) : Rooted(from, n) }

\* FromList{Paths: []PathEnd{{From: ...}, ...}}: only the parents are given.
Unmeasured(from) ==
    [Paths |-> [v \in DOMAIN from |-> [From |-> from[v], Len |-> 0]],
     MaxLen |-> 0, Leaves |-> {}]

\* FromList{Paths: []PathEnd{{From: ..., Len: ...}, ...}, MaxLen: ...}: the
\* lengths given are the numbers of nodes on the paths from the roots.
Measured(from) ==
    LET n     == Cardinality(DOMAIN from)
        depth == [v \in DOMAIN from |-> Len(Walk(from, v, n))]
    IN  [Paths |-> [v \in DOMAIN from |-> [From |-> from[v], Len |-> depth[v]]],
         MaxLen |-> CHOOSE m \in { depth[v] : v \in DOMAIN from } :
                        \A v \in DOMAIN from : depth[v] <= m,
         Leaves |-> {}]

\* The parents recorded in paths.
FromOf(paths) == [v \in DOMAIN paths |-> paths[v].From]

\* Mutant of Reslice: a buffer that is large enough is used whole.
ResliceWhole(buf, n) == IF Len(buf) >= n THEN buf ELSE [i \in 1 .. n |-> 0]

\* The buffer PathTo fills: the caller's, cut to n elements, when it holds at
\* least n, a new one of n elements otherwise.
Reslice(buf, n) == IF Len(buf) >= n THEN SubSeq(buf, 1, n) ELSE [i \in 1 .. n |-> 0]

RECURSIVE FillPath(_, _, _, _)
\* The walk from node end towards its root written into p backwards, end at
\* index i.
FillPath(paths, end, p, i) ==
    IF i = 0 THEN p
    ELSE IF i = 1 THEN [p EXCEPT ![1] = end]
    ELSE FillPath(paths, paths[end].From, [p EXCEPT ![i] = end], i - 1)

\* f.PathTo(end, buf)
PathTo(paths, end, buf) ==
    FillPath(paths, end, Reslice(buf, paths[end].Len), paths[end].Len)

\* Mutant of WalkToDepth: the deeper node is not walked up.
WalkToDepthSkipped(paths, n, l) == n

RECURSIVE WalkToDepth(_, _, _)
\* Node n walked up until its recorded length is at most l.
WalkToDepth(paths, n, l) ==
    IF n = -1 THEN -1
    ELSE IF paths[n].Len > l THEN WalkToDepth(paths, paths[n].From, l)
    ELSE n

RECURSIVE Lockstep(_, _, _)
\* Both nodes walked up together until they match or a root is passed.
Lockstep(paths, n, m) ==
    IF n = -1 \/ m = -1 THEN -1
    ELSE IF n = m THEN n
    ELSE Lockstep(paths, paths[n].From, paths[m].From)

\* f.CommonAncestor(n, m)
CommonAncestor(paths, n, m) ==
    LET l == IF paths[n].Len < paths[m].Len THEN paths[n].Len ELSE paths[m].Len
    IN  Lockstep(paths, WalkToDepth(paths, n, l), WalkToDepth(paths, m, l))

\* f.RecalcLeaves(): every bit set, then the bit of the parent of every node
\* that has one cleared.
RecalcLeaves(paths) ==
    DOMAIN paths \ { paths[n].From : n \in { m \in DOMAIN paths : paths[m].From # -1 } }

\* The walk up from some leaf never comes to a root.
Diverges(paths, leaves) ==
    \E l \in leaves :
        Len(Walk(FromOf(paths), l, Cardinality(DOMAIN paths) + 1))
            > Cardinality(DOMAIN paths)

\* The length RecalcLen records for a node on the walk up from a leaf: 1 at
\* the root, one more at each node further out.
LenOnWalk(from, v, n) == Len(Walk(from, v, n))

\* f.RecalcLen(), for parent pointers that do not diverge.
RecalcLen(t) ==
    LET n      == Cardinality(DOMAIN t.Paths)
        from   == FromOf(t.Paths)
        onWalk == { v \in DOMAIN t.Paths :
                      \E l \in t.Leaves :
                          \E k \in 1 .. Len(Walk(from, l, n)) : Walk(from, l, n)[k] = v }
        len    == [v \in DOMAIN t.Paths |->
                      IF v \in onWalk THEN LenOnWalk(from, v, n) ELSE t.Paths[v].Len]
        seen   == {0} \cup { len[l] : l \in t.Leaves }
    IN  [t EXCEPT !.Paths = [v \in DOMAIN t.Paths |-> [From |-> from[v], Len |-> len[v]]],
                  !.MaxLen = CHOOSE m \in seen : \A q \in seen : q <= m]

RECURSIVE UndirectedFrom(_, _, _)
\* for n, p := range f.Paths, from node n on, with gr the graph so far.
UndirectedFrom(paths, n, gr) ==
    IF n >= Len(gr) THEN gr
    ELSE LET p == paths[n].From IN
         IF p = -1 THEN UndirectedFrom(paths, n + 1, gr)
         ELSE IF p = n
         THEN UndirectedFrom(paths, n + 1, [gr EXCEPT ![n + 1] = Append(@, p)])
         ELSE UndirectedFrom(paths, n + 1,
                  [gr EXCEPT ![n + 1] = Append(@, p), ![p + 1] = Append(@, n)])

\* f.Undirected()
Undirected(paths) ==
    UndirectedFrom(paths, 0, [n \in 1 .. Cardinality(DOMAIN paths) |-> <<>>])

\* The buffers a caller hands to PathTo in a FromList of order n: nil, or one
\* of any capacity up to n whose elements are left from an earlier use.
Buffers(n) == { [i \in 1 .. k |-> 0] : k \in 0 .. n }

\* What every FromList method leaves alone.
fromListFrame == <<visBits, pathBits, budget, cf, bfsVars, dfsVars, log>>

\* The caller asks for the path to a node that has a length.
CallPathTo(end, buf) ==
    /\ pc = "fromlist"
    /\ tree.Paths[end].Len > 0
    /\ ret' = Return("PathTo", [end |-> end, buf |-> buf,
                                path |-> PathTo(tree.Paths, end, buf)])
    /\ pc' = "pathto_ret"
    /\ pre' = Snapshot
    /\ UNCHANGED <<g, tree, fromListFrame>>

\* The caller asks for the common ancestor of two nodes that have a length.
CallCommonAncestor(n, m) ==
    /\ pc = "fromlist"
    /\ tree.Paths[n].Len > 0
    /\ tree.Paths[m].Len > 0
    /\ ret' = Return("CommonAncestor", [a |-> n, b |-> m,
                                        node |-> CommonAncestor(tree.Paths, n, m)])
    /\ pc' = "commonancestor_ret"
    /\ pre' = Snapshot
    /\ UNCHANGED <<g, tree, fromListFrame>>

\* g := f.Undirected()
CallUndirected ==
    /\ pc = "fromlist"
    /\ g' = Undirected(tree.Paths)
    /\ pc' = "undirected_ret"
    /\ pre' = Snapshot
    /\ UNCHANGED <<tree, fromListFrame, ret>>

\* f.RecalcLeaves() on the tree a BreadthFirst given From(&f) has returned.
CallRecalcLeaves ==
    /\ pc = "bfs_ret"
    /\ cf.fromList
    /\ tree' = [tree EXCEPT !.Leaves = RecalcLeaves(tree.Paths)]
    /\ pc' = "recalcleaves_ret"
    /\ pre' = Snapshot
    /\ UNCHANGED <<g, fromListFrame, ret>>

\* f.RecalcLen() after f.RecalcLeaves(): it does not return when the walk up
\* from a leaf finds no root.
CallRecalcLen ==
    /\ pc = "recalcleaves_ret"
    /\ IF Diverges(tree.Paths, tree.Leaves)
       THEN /\ pc' = "recalclen_diverged"
            /\ UNCHANGED tree
       ELSE /\ pc' = "recalclen_ret"
            /\ tree' = RecalcLen(tree)
    /\ pre' = Snapshot
    /\ UNCHANGED <<g, fromListFrame, ret>>

\* ----------------------------------------------------------- specification

\* The ids of the nodes of g.
Nodes == NodesOf(Len(g))

\* The caller holds a graph of gs, a zero FromList and two bitsets of the
\* graph's order with no bit set, and is about to make n calls.
InitWith(gs, n) ==
    /\ g \in gs
    /\ budget = n
    /\ tree = ZeroFromList
    /\ visBits = {}
    /\ pathBits = {}
    /\ pc = "idle"
    /\ cf = Config(0, FALSE, FALSE, FALSE, FALSE)
    /\ f = ZeroFromList
    /\ frontier = <<>>
    /\ level = 0
    /\ next = <<>>
    /\ order = <<>>
    /\ pos = 1
    /\ b = {}
    /\ stack = <<>>
    /\ log = <<>>
    /\ pre = NoSnapshot(g)
    /\ ret = NoReturn

\* One call of either traversal on a graph of the staged order.
Init == InitWith(GraphsOf(StagedNodes, MaxArcs), 1)

\* The caller holds a graph of gs and a FromList of ts, calls no traversal and
\* is at p.
InitHolding(gs, ts, p) ==
    /\ g \in gs
    /\ budget = 0
    /\ tree \in ts
    /\ visBits = {}
    /\ pathBits = {}
    /\ pc = p
    /\ cf = Config(0, FALSE, FALSE, FALSE, FALSE)
    /\ f = ZeroFromList
    /\ frontier = <<>>
    /\ level = 0
    /\ next = <<>>
    /\ order = <<>>
    /\ pos = 1
    /\ b = {}
    /\ stack = <<>>
    /\ log = <<>>
    /\ pre = NoSnapshot(g)
    /\ ret = NoReturn

\* The caller holds a graph of gs and is about to ask about it.
InitGraph(gs) == InitHolding(gs, {ZeroFromList}, "graph")

\* The caller holds a FromList of order NumNodes it built itself, with the
\* lengths either left unset or set to the depths, and no graph.
InitFromList ==
    InitHolding({<<>>},
                { Unmeasured(from) : from \in ParentLists(NumNodes) }
                    \cup { Measured(from) : from \in Forests(NumNodes) },
                "fromlist")

\* One call on a graph of the full order, or staged calls on a smaller one.
InitStaged == InitWith(Graphs, 1) \/ InitWith(StagedGraphs, MaxCalls)

NextBFS ==
    \/ \E start \in Nodes, fromList, rnd \in BOOLEAN :
          BreadthFirst(start, fromList, rnd)
    \/ \E ok \in BOOLEAN : BFSVisit(ok)
    \/ BFSNext

NextDFS ==
    \/ \E start \in Nodes, visited, path, rnd, ok \in BOOLEAN :
          DepthFirst(start, visited, path, rnd, ok)
    \/ \E okArc, okNode \in BOOLEAN : DFSArc(okArc, okNode)
    \/ DFSLeave

Next == NextBFS \/ NextDFS

\* Either traversal, one call.
Spec == Init /\ [][Next]_vars

\* BreadthFirst calls only, sharing the caller's FromList.
SpecBFS == InitStaged /\ [][NextBFS]_vars

\* DepthFirst calls only, sharing the caller's bitsets.
SpecDFS == InitStaged /\ [][NextDFS]_vars

NextStaged ==
    \/ \E start \in Nodes, path, rnd, ok \in BOOLEAN :
          DepthFirst(start, TRUE, path, rnd, ok)
    \/ \E okArc, okNode \in BOOLEAN : DFSArc(okArc, okNode)
    \/ DFSLeave

\* As many DepthFirst calls as the graph has nodes, all given the caller's
\* visited bitset.
SpecStaged == InitWith(StagedGraphs, StagedNodes) /\ [][NextStaged]_vars

NextOptions ==
    \/ \E start \in Nodes, fromList, visited, path \in BOOLEAN :
          BreadthFirstGiven(start, fromList, visited, path, FALSE)
    \/ \E ok \in BOOLEAN : BFSVisit(ok)
    \/ BFSNext
    \/ \E start \in Nodes, fromList, ok \in BOOLEAN :
          DepthFirstGiven(start, fromList, TRUE, TRUE, FALSE, ok)
    \/ \E okArc, okNode \in BOOLEAN : DFSArc(okArc, okNode)
    \/ DFSLeave

\* Calls of either traversal staged on the caller's FromList and bitsets:
\* BreadthFirst with or without From, Visited and PathBits, DepthFirst with
\* Visited and PathBits and with or without From, all with every visitor.
SpecOptions == InitWith(StagedGraphs, MaxCalls) /\ [][NextOptions]_vars

\* IsUndirected asked of a graph.
SpecIsUndirected == InitGraph(Graphs) /\ [][CallIsUndirected]_vars

NextFromList ==
    \/ \E end \in NodesOf(NumNodes), buf \in Buffers(NumNodes) : CallPathTo(end, buf)
    \/ \E n, m \in NodesOf(NumNodes) : CallCommonAncestor(n, m)
    \/ CallUndirected
    \/ CallIsUndirected

\* One query of a FromList the caller built, and IsUndirected asked of the
\* graph Undirected returns.
SpecFromList == InitFromList /\ [][NextFromList]_vars

NextRecalc == NextBFS \/ CallRecalcLeaves \/ CallRecalcLen

\* One BreadthFirst call, then RecalcLeaves and RecalcLen on the tree it wrote.
SpecRecalc == InitWith(Graphs, 1) /\ [][NextRecalc]_vars


\* ------------------------------------------------------- graph definitions

\* The targets of the arcs leaving the nodes of S.
Targets(gr, S) ==
    UNION { { ArcsOf(gr, n)[k] : k \in 1 .. Len(ArcsOf(gr, n)) } : n \in S }

RECURSIVE Within(_, _, _)
\* The nodes at graph distance at most d from s.
Within(gr, s, d) ==
    IF d = 0 THEN {s}
    ELSE Within(gr, s, d - 1) \cup Targets(gr, Within(gr, s, d - 1))

\* The nodes reachable from s.
Reachable(gr, s) == Within(gr, s, Len(gr))

\* The graph distance from s to a node v reachable from it.
Distance(gr, s, v) == CHOOSE d \in 0 .. Len(gr) :
                         /\ v \in Within(gr, s, d)
                         /\ \A e \in 0 .. (d - 1) : v \notin Within(gr, s, e)

\* ------------------------------------------------------- log definitions

\* The positions of the log holding an event of one of the kinds ops.
At(ops) == { i \in 1 .. Len(log) : log[i].op \in ops }

\* A conditional callback returned false in the current call.
Aborted == \E i \in At({"OkNodeVisitor", "OkArcVisitor"}) : ~log[i].ok

\* The current BreadthFirst call started from a tree with no entry set.
FreshTree == ~cf.fromList \/ pre.tree.Paths = NilPaths

\* --------------------------------------------------------------- claims

\* C1: a BreadthFirst from s into a freshly created tree that runs to
\* completion, with or without a randomization source, leaves Paths[s] =
\* {From: -1, Len: 1}, gives every node at graph distance d from s the Len
\* d + 1, and leaves every node not reachable from s with Len 0.
C1_BreadthFirstLengths ==
    (pc = "bfs_ret" /\ FreshTree /\ ~Aborted) =>
        /\ f.Paths[cf.start] = [From |-> -1, Len |-> 1]
        /\ \A v \in Nodes :
              IF v \in Reachable(g, cf.start)
              THEN f.Paths[v].Len = Distance(g, cf.start, v) + 1
              ELSE f.Paths[v].Len = 0
        /\ cf.fromList => tree = f

\* C1 witness: a completed randomized traversal into a fresh tree that found
\* a node at distance 2 and left a node unreached.
C1_Witness ==
    /\ pc = "bfs_ret" /\ FreshTree /\ ~Aborted /\ cf.rand /\ cf.fromList
    /\ \E v \in Nodes : f.Paths[v].Len = 3
    /\ \E v \in Nodes : f.Paths[v].Len = 0 /\ v \notin Reachable(g, cf.start)

\* A node counts as assigned before position i of the log when the call stored
\* its PathEnd earlier, or an earlier call left it one that this call kept.
AssignedBefore(v, i) ==
    \/ \E j \in At({"Paths"}) : j < i /\ log[j].n = v
    \/ /\ cf.fromList
       /\ pre.tree.Paths # NilPaths
       /\ pre.tree.Paths[v].Len # 0

\* C2: during any BreadthFirst run the Paths entries are written in
\* non-decreasing order of Len; when a node is assigned length k + 1 every
\* node whose length is at most k (and, in a fresh tree, every node at a
\* shallower depth) has already been assigned; and the node visitor is invoked
\* in non-decreasing order of the visited node's Len.
C2_BreadthFirstOrder ==
    (pc \in {"bfs", "bfs_ret"}) =>
        /\ \A i, j \in At({"Paths"}) : i < j => log[i].pe.Len <= log[j].pe.Len
        /\ \A i \in At({"Paths"}) : \A v \in Nodes :
              (f.Paths[v].Len >= 1 /\ f.Paths[v].Len < log[i].pe.Len)
                  => AssignedBefore(v, i)
        /\ FreshTree =>
              \A i \in At({"Paths"}) : \A v \in Reachable(g, cf.start) :
                  (Distance(g, cf.start, v) + 1 < log[i].pe.Len)
                      => AssignedBefore(v, i)
        /\ \A i, j \in At({"NodeVisitor"}) : i < j => log[i].pe.Len <= log[j].pe.Len
        /\ \A i \in At({"NodeVisitor"}) : log[i].pe.Len >= 1

\* C2 witness: a run that has written entries of three different lengths and
\* visited nodes of two different lengths.
C2_Witness ==
    /\ pc = "bfs"
    /\ \E i, j, k \in At({"Paths"}) :
          log[i].pe.Len < log[j].pe.Len /\ log[j].pe.Len < log[k].pe.Len
    /\ \E i, j \in At({"NodeVisitor"}) : log[i].pe.Len < log[j].pe.Len

\* C3: once a conditional callback returns false, in BreadthFirst or in
\* DepthFirst, the traversal aborts at once: the call has returned and nothing
\* follows the callback in the log, no callback of any kind, no Paths entry
\* written, no visited bit set.
C3_AbortIsImmediate ==
    \A i \in At({"OkNodeVisitor", "OkArcVisitor"}) :
        ~log[i].ok => (i = Len(log) /\ pc \in {"bfs_ret", "dfs_ret"} /\ stack = <<>>)

\* C3 witness: a DepthFirst stopped by its conditional arc visitor with arcs
\* still to take and reachable nodes still unvisited.
C3_Witness ==
    /\ pc = "dfs_ret"
    /\ Len(log) > 0
    /\ log[Len(log)].op = "OkArcVisitor"
    /\ ~log[Len(log)].ok
    /\ Reachable(g, cf.start) \ b # {}
    /\ Cardinality(b) >= 2


\* The current DepthFirst call started with no visited bit set.
FreshBits == ~cf.visBits \/ pre.visBits = {}

\* The number of events of kind op on node n in the log.
Count(op, n) == Cardinality({ i \in At({op}) : log[i].n = n })

\* C4: a DepthFirst with a fresh visited set whose conditional node visitor
\* returns false on the k-th node visited has had that visitor succeed exactly
\* k - 1 times, visits no further node, and returns with exactly the first k
\* nodes marked visited, the k-th included because a node is marked before the
\* visitor is asked.
C4_StopOnKthNode ==
    (pc = "dfs_ret" /\ FreshBits /\ \E i \in At({"OkNodeVisitor"}) : ~log[i].ok) =>
        LET asked == At({"OkNodeVisitor"})
            k     == Cardinality(asked)
        IN  /\ Cardinality({ i \in asked : log[i].ok }) = k - 1
            /\ ~log[Len(log)].ok /\ log[Len(log)].op = "OkNodeVisitor"
            /\ b = { log[i].n : i \in asked }
            /\ Cardinality(b) = k
            /\ Cardinality(At({"NodeVisitor"})) = k
            /\ cf.visBits => visBits = b

\* C4 witness: the conditional node visitor returned false on the third node.
C4_Witness ==
    /\ pc = "dfs_ret" /\ FreshBits
    /\ Cardinality(At({"OkNodeVisitor"})) = 3
    /\ ~log[Len(log)].ok /\ log[Len(log)].op = "OkNodeVisitor"
    /\ Cardinality(b) = 3
    /\ Reachable(g, cf.start) \ b # {}

\* C5: a DepthFirst from s that is not aborted and starts from a fresh visited
\* set, with or without a randomization source, invokes the node visitor
\* exactly once for each node reachable from s and for no other node, and
\* returns with exactly the nodes reachable from s marked visited.
C5_VisitsReachableOnce ==
    (pc = "dfs_ret" /\ FreshBits /\ ~Aborted) =>
        /\ \A v \in Nodes :
              Count("NodeVisitor", v) = IF v \in Reachable(g, cf.start) THEN 1 ELSE 0
        /\ b = Reachable(g, cf.start)
        /\ cf.visBits => visBits = b

\* C5 witness: a completed randomized traversal of a graph with an arc to an
\* already visited node, three reachable nodes and an unreachable one.
C5_Witness ==
    /\ pc = "dfs_ret" /\ FreshBits /\ ~Aborted /\ cf.rand
    /\ Cardinality(b) = 3
    /\ Nodes \ Reachable(g, cf.start) # {}
    /\ Cardinality(At({"ArcVisitor"})) = 3

\* The target of the arc an arc event reports.
TargetOf(e) == ArcsOf(g, e.n)[e.x + 1]

\* C6: a DepthFirst that is not aborted invokes the arc visitor exactly once
\* for every out-arc (n, x) of every node n it visits, arcs to already visited
\* targets included, and for no other arc; and a node entered through an arc
\* has its node visitor invoked after the arc visitor of that arc, which is
\* the last arc reported before it.
C6_ArcsReportedOnce ==
    /\ (pc = "dfs_ret" /\ ~Aborted) =>
          /\ \A i \in At({"SetBit"}) :
                \A x \in 0 .. (Len(ArcsOf(g, log[i].n)) - 1) :
                    Cardinality({ j \in At({"ArcVisitor"}) :
                                     log[j].n = log[i].n /\ log[j].x = x }) = 1
          /\ \A j \in At({"ArcVisitor"}) :
                /\ \E i \in At({"SetBit"}) : log[i].n = log[j].n
                /\ log[j].x \in 0 .. (Len(ArcsOf(g, log[j].n)) - 1)
    /\ (pc \in {"dfs", "dfs_ret"}) =>
          \A i \in At({"NodeVisitor"}) :
              Len(log[i].rec) >= 2 =>
                  LET before == { j \in At({"ArcVisitor"}) : j < i } IN
                  /\ before # {}
                  /\ LET j == CHOOSE m \in before : \A q \in before : q <= m IN
                     /\ log[j].n = log[i].rec[Len(log[i].rec) - 1]
                     /\ TargetOf(log[j]) = log[i].n

\* C6 witness: a completed traversal that reported an arc whose target was
\* already visited and entered a node through an arc.
C6_Witness ==
    /\ pc = "dfs_ret" /\ ~Aborted
    /\ \E j \in At({"ArcVisitor"}) :
          \E i \in At({"SetBit"}) : i < j /\ log[i].n = TargetOf(log[j])
    /\ \E i \in At({"NodeVisitor"}) : Len(log[i].rec) >= 2

\* C7: a DepthFirst given a visited bitset in which the start node is already
\* marked does nothing: no callback is invoked and the visited bitset and the
\* path bitset are as they were.
C7_VisitedStartIsNoOp ==
    (pc = "dfs_ret" /\ cf.visBits /\ cf.start \in pre.visBits) =>
        /\ log = <<>>
        /\ visBits = pre.visBits
        /\ pathBits = pre.pathBits

\* C7 witness: such a call, made with a path bitset that an earlier, aborted
\* call left with bits set.
C7_Witness ==
    /\ pc = "dfs_ret" /\ cf.visBits /\ cf.start \in pre.visBits
    /\ cf.pathBits /\ pre.pathBits # {}
    /\ Targets(g, {cf.start}) \ pre.visBits # {}

\* The set of the elements of a sequence.
Range(sq) == { sq[i] : i \in 1 .. Len(sq) }

\* C8: in a DepthFirst given a path bitset, whatever the bitset held before
\* the call, at every node visitor and arc visitor invocation the bits set are
\* exactly the nodes on the recursion path from the start node to the node
\* being visited; and when a traversal has run to completion every bit of the
\* path bitset is clear.
C8_PathBitsAreThePath ==
    (pc \in {"dfs", "dfs_ret"} /\ cf.pathBits) =>
        /\ \A i \in At({"NodeVisitor", "OkNodeVisitor", "ArcVisitor", "OkArcVisitor"}) :
              /\ log[i].bits = Range(log[i].rec)
              /\ log[i].rec[1] = cf.start
              /\ log[i].rec[Len(log[i].rec)] = log[i].n
        /\ pc = "dfs" => pathBits = Range(PathOf(stack))
        /\ (pc = "dfs_ret" /\ ~Aborted /\ log # <<>>) => pathBits = {}

\* C8 witness: a completed traversal, two nodes deep, given a path bitset that
\* an earlier, aborted call had left with bits set.
C8_Witness ==
    /\ pc = "dfs_ret" /\ cf.pathBits /\ ~Aborted
    /\ pre.pathBits # {}
    /\ \E i \in At({"ArcVisitor"}) : Len(log[i].rec) >= 2
    /\ pathBits = {}

\* The current BreadthFirst call writes a tree an earlier call allocated.
Accumulating == cf.fromList /\ pre.tree.Paths # NilPaths

\* C9 as stated: a BreadthFirst given a tree whose Paths are already
\* allocated, from any start node, leaves every entry that had a nonzero Len
\* as it was and writes only entries that had Len 0.
C9_Original ==
    (pc \in {"bfs", "bfs_ret"} /\ Accumulating) =>
        /\ \A v \in Nodes :
              pre.tree.Paths[v].Len # 0 => tree.Paths[v] = pre.tree.Paths[v]
        /\ \A i \in At({"Paths"}) : pre.tree.Paths[log[i].n].Len = 0

\* C9 as amended: the start node's entry is always set to {From: -1, Len: 1};
\* every other entry that had a nonzero Len is left as it was, and besides the
\* start node's only entries that had Len 0 are written.
C9_Accumulates ==
    (pc \in {"bfs", "bfs_ret"} /\ Accumulating) =>
        /\ \A v \in Nodes \ {cf.start} :
              pre.tree.Paths[v].Len # 0 => tree.Paths[v] = pre.tree.Paths[v]
        /\ \A i \in At({"Paths"}) :
              log[i].n # cf.start => pre.tree.Paths[log[i].n].Len = 0
        /\ tree.Paths[cf.start] = [From |-> -1, Len |-> 1]
        /\ tree.Paths = f.Paths

\* C9 witness: a call into an allocated tree has returned after scanning an
\* arc to a node that an earlier call had reached.
C9_Witness ==
    /\ pc = "bfs_ret" /\ Accumulating /\ ~Aborted
    /\ \E v \in Targets(g, {cf.start}) \ {cf.start} : pre.tree.Paths[v].Len # 0
    /\ pre.tree.Paths[cf.start].Len = 0

\* The greatest element of a nonempty set of integers.
Max(S) == CHOOSE m \in S : \A q \in S : q <= m

\* C10: whenever BreadthFirst returns, the frontier exhausted or a conditional
\* visitor having returned false, the tree's MaxLen is the greatest Len the
\* call recorded in any Paths entry.
C10_MaxLenIsGreatestLen ==
    pc = "bfs_ret" => f.MaxLen = Max({ log[i].pe.Len : i \in At({"Paths"}) })

\* The current BreadthFirst call stored a PathEnd for node v.
Reached(v) == \E i \in At({"Paths"}) : log[i].n = v

RECURSIVE Ancestor(_, _, _)
\* The node k From-steps above v in the Paths rp.
Ancestor(rp, v, k) == IF k = 0 THEN v ELSE Ancestor(rp, rp[v].From, k - 1)

\* The graph gr has an arc from u to v.
HasArc(gr, u, v) == \E k \in 1 .. Len(ArcsOf(gr, u)) : ArcsOf(gr, u)[k] = v

\* C18: in every state during and after a BreadthFirst into a fresh tree, each
\* node v other than the start with Len(v) > 0 has a parent u = From(v) such
\* that u -> v is an arc of g, Len(u) > 0 and Len(v) = Len(u) + 1; following
\* the From pointers from v reaches the start after exactly Len(v) - 1 steps,
\* so the pointers hold no cycle.
C18_ParentsAreArcs ==
    (pc \in {"bfs", "bfs_ret"} /\ FreshTree) =>
        /\ \A v \in Nodes \ {cf.start} :
              f.Paths[v].Len > 0 =>
                  LET u == f.Paths[v].From IN
                  /\ u \in Nodes
                  /\ HasArc(g, u, v)
                  /\ f.Paths[u].Len > 0
                  /\ f.Paths[v].Len = f.Paths[u].Len + 1
        /\ f.Paths[cf.start] = [From |-> -1, Len |-> 1]
        /\ \A v \in Nodes :
              f.Paths[v].Len > 0 =>
                  /\ Ancestor(f.Paths, v, f.Paths[v].Len - 1) = cf.start
                  /\ \A k \in 0 .. (f.Paths[v].Len - 2) :
                        Ancestor(f.Paths, v, k) # cf.start

\* C18 witness: a traversal still running that has given a node the Len 3 and
\* has scanned an arc back to the start.
C18_Witness ==
    /\ pc = "bfs" /\ FreshTree
    /\ \E v \in Nodes : f.Paths[v].Len = 3
    /\ \E u \in Nodes \ {cf.start} :
          /\ HasArc(g, u, cf.start)
          /\ \E i \in At({"NodeVisitor"}) : log[i].n = u

\* The number of arcs of gr from u to v.
ArcCount(gr, u, v) ==
    Cardinality({ k \in 1 .. Len(ArcsOf(gr, u)) : ArcsOf(gr, u)[k] = v })

\* Every pair of distinct nodes has as many arcs one way as the other.
Paired(gr) ==
    \A u, v \in NodesOf(Len(gr)) : u # v => ArcCount(gr, u, v) = ArcCount(gr, v, u)

\* C13: IsUndirected returns (true, -1, -1) if and only if every pair of
\* distinct nodes a, b has as many arcs a -> b as b -> a, loops ignored;
\* otherwise it returns false with an arc (from, to) that exists in g and has
\* more copies from -> to than to -> from.
C13_IsUndirected ==
    (pc = "isundirected_ret" /\ ret.op = "IsUndirected") =>
        IF Paired(g)
        THEN ret.val = [u |-> TRUE, from |-> -1, to |-> -1]
        ELSE /\ ret.val.u = FALSE
             /\ ret.val.from \in Nodes
             /\ ret.val.to \in Nodes
             /\ ret.val.from # ret.val.to
             /\ ArcCount(g, ret.val.from, ret.val.to) >= 1
             /\ ArcCount(g, ret.val.from, ret.val.to)
                    > ArcCount(g, ret.val.to, ret.val.from)

\* C13 witness: false returned with an arc that has two parallel copies and a
\* single reciprocal.
C13_Witness ==
    /\ pc = "isundirected_ret" /\ ret.op = "IsUndirected"
    /\ ~ret.val.u
    /\ ArcCount(g, ret.val.to, ret.val.from) = 1
    /\ ArcCount(g, ret.val.from, ret.val.to) = 2

\* The nodes of the caller's FromList.
TreeNodes == DOMAIN tree.Paths

\* The number of arcs u -> v a graph made of the parent pointers of the
\* caller's FromList and their reciprocals holds: one for v the child of u,
\* one for v the parent of u, and a single loop for a node that is its own
\* parent.
ArcsOwed(u, v) ==
    IF u = v THEN (IF tree.Paths[u].From = u THEN 1 ELSE 0)
    ELSE (IF tree.Paths[v].From = u THEN 1 ELSE 0)
             + (IF tree.Paths[u].From = v THEN 1 ELSE 0)

\* C14: for every valid FromList, Undirected yields a graph that holds, for
\* each node n whose parent p is not -1, the arcs p -> n and n -> p, a single
\* loop arc for a node that names itself as parent, and nothing else; and
\* IsUndirected reports true on it.
C14_UndirectedIsUndirected ==
    /\ (pc \in {"undirected_ret", "isundirected_ret"} /\ tree.Paths # NilPaths) =>
          /\ Nodes = TreeNodes
          /\ \A u, v \in TreeNodes : ArcCount(g, u, v) = ArcsOwed(u, v)
    /\ (pc = "isundirected_ret" /\ tree.Paths # NilPaths) =>
          ret.val = [u |-> TRUE, from |-> -1, to |-> -1]

\* C14 witness: IsUndirected has answered for the graph of a FromList with a
\* root, a node that is its own parent and a child of that node.
C14_Witness ==
    /\ pc = "isundirected_ret" /\ tree.Paths # NilPaths
    /\ \E r, n, c \in TreeNodes :
          /\ tree.Paths[r].From = -1
          /\ tree.Paths[n].From = n
          /\ c # n /\ tree.Paths[c].From = n
          /\ ArcCount(g, n, n) = 1 /\ ArcCount(g, n, c) = 1 /\ ArcCount(g, c, n) = 1
    /\ ret.val.u

\* The sequence sq reversed.
Reverse(sq) == [i \in 1 .. Len(sq) |-> sq[Len(sq) + 1 - i]]

\* The parent-pointer walk from node v of the caller's FromList to its root.
RootWalk(v) == Walk(FromOf(tree.Paths), v, Cardinality(TreeNodes))

\* C16: in an acyclic FromList with correct lengths, PathTo(n, buf) for a
\* node n with Len > 0 returns the parent-pointer walk from n to its root
\* reversed, root first and n last, Len(n) elements, the single node n when n
\* is a root, whatever the buffer: nil, too short, or long enough to be reused.
C16_PathTo ==
    (pc = "pathto_ret") =>
        LET n    == ret.val.end
            path == ret.val.path
        IN  /\ path = Reverse(RootWalk(n))
            /\ Len(path) = tree.Paths[n].Len
            /\ tree.Paths[path[1]].From = -1
            /\ path[Len(path)] = n
            /\ \A i \in 2 .. Len(path) : tree.Paths[path[i]].From = path[i - 1]
            /\ tree.Paths[n].From = -1 => path = <<n>>

\* C16 witness: PathTo has returned a path of three nodes for which it reused
\* a buffer longer than the path.
C16_Witness ==
    /\ pc = "pathto_ret"
    /\ Len(ret.val.path) = 3
    /\ Len(ret.val.buf) > 3

\* C17: in an acyclic FromList with correct lengths, CommonAncestor(a, b) for
\* reached nodes a and b returns the lowest node lying on both root paths,
\* which is a itself when a is an ancestor of b or a = b, and returns -1
\* exactly when a and b lie in different trees of the forest.
C17_CommonAncestor ==
    (pc = "commonancestor_ret") =>
        LET wa     == RootWalk(ret.val.a)
            wb     == RootWalk(ret.val.b)
            common == Range(wa) \cap Range(wb)
            r      == ret.val.node
        IN  /\ (r = -1) <=> (wa[Len(wa)] # wb[Len(wb)])
            /\ (r = -1) <=> (common = {})
            /\ r # -1 =>
                  /\ r \in common
                  /\ \A c \in common : tree.Paths[c].Len <= tree.Paths[r].Len
            /\ ret.val.a \in Range(wb) => r = ret.val.a

\* C17 witness: the common ancestor returned for two nodes at different depths
\* is neither of them.
C17_Witness ==
    /\ pc = "commonancestor_ret"
    /\ ret.val.node \notin {-1, ret.val.a, ret.val.b}
    /\ tree.Paths[ret.val.a].Len # tree.Paths[ret.val.b].Len
    /\ Cardinality({ v \in TreeNodes : tree.Paths[v].From = -1 }) = 1

\* The nodes no node of the caller's FromList names as parent.
Childless == { v \in TreeNodes : \A u \in TreeNodes : tree.Paths[u].From # v }

Visits(v) ==
    pre.visits[v]
        + (IF pc \in {"dfs", "dfs_ret"} /\ cf.visBits
           THEN Count("NodeVisitor", v) ELSE 0)

\* The start nodes of those calls.
Starts ==
    pre.starts \cup (IF pc \in {"dfs", "dfs_ret"} /\ cf.visBits THEN {cf.start} ELSE {})

\* What C19 says of a single state of a sequence of staged calls.
StagedSoFar ==
    /\ (pc \in {"dfs", "dfs_ret"} /\ cf.visBits) =>
          /\ pre.visBits \subseteq visBits
          /\ \A i \in At({"NodeVisitor"}) : log[i].n \notin pre.visBits
    /\ \A v \in Nodes : Visits(v) = IF v \in visBits THEN 1 ELSE 0
    /\ Starts \subseteq visBits
    /\ (pc = "dfs_ret" /\ Starts = Nodes) => \A v \in Nodes : Visits(v) = 1

\* C19: in a sequence of DepthFirst calls that share the caller's visited
\* bitset, in any order of start nodes, no step of any call clears a visited
\* bit, a node marked before a call does not have its node visitor invoked in
\* that call, every node has had its node visitor invoked once if it is
\* marked and never otherwise, and once every node has been used as a start
\* every node has had its node visitor invoked exactly once.
C19_StagedDepthFirst ==
    /\ []StagedSoFar
    /\ [][visBits \subseteq visBits']_vars

\* C19 witness: three calls have returned, each from a different start, the
\* last one having reported an arc to a node an earlier call had marked, and
\* every node has been visited once.
C19_Witness ==
    /\ pc = "dfs_ret" /\ cf.visBits /\ budget = 0
    /\ Starts = Nodes
    /\ Cardinality(pre.starts) = 2
    /\ \A v \in Nodes : Visits(v) = 1
    /\ \E i \in At({"ArcVisitor"}) : TargetOf(log[i]) \in pre.visBits

\* The config c without the options BreadthFirst lists as unsupported.
SupportedByBreadthFirst(c) ==
    [c EXCEPT !.arcVisitor = FALSE, !.okArcVisitor = FALSE,
              !.visBits = FALSE, !.pathBits = FALSE]

\* The config c without the option DepthFirst lists as unsupported.
SupportedByDepthFirst(c) == [c EXCEPT !.fromList = FALSE]

\* A BreadthFirst call has no arc callback invoked, no visited bit set and the
\* caller's bitsets as they were; a DepthFirst call has written no Paths entry
\* and the caller's tree as it was.
OptionsUntouched ==
    /\ pc \in {"bfs", "bfs_ret"} =>
          /\ At({"ArcVisitor", "OkArcVisitor", "SetBit"}) = {}
          /\ visBits = pre.visBits
          /\ pathBits = pre.pathBits
    /\ pc \in {"dfs", "dfs_ret"} =>
          /\ At({"Paths"}) = {}
          /\ tree = pre.tree

\* Every step of a call is the step the same traversal takes with the
\* unsupported options left out of the config.
OptionsIgnored ==
    /\ (budget' = budget - 1 /\ pc' = "bfs") =>
          BreadthFirstAs(SupportedByBreadthFirst(cf'))
    /\ pc = "bfs" =>
          \/ \E ok \in BOOLEAN : BFSVisitAs(SupportedByBreadthFirst(cf), ok)
          \/ BFSNextAs(SupportedByBreadthFirst(cf))
    /\ (budget' = budget - 1 /\ pc' \in {"dfs", "dfs_ret"}) =>
          \E ok \in BOOLEAN : DepthFirstAs(SupportedByDepthFirst(cf'), ok)
    /\ pc = "dfs" =>
          \/ \E okArc, okNode \in BOOLEAN :
                DFSArcAs(SupportedByDepthFirst(cf), okArc, okNode)
          \/ DFSLeaveAs(SupportedByDepthFirst(cf))

\* C12: unsupported pairings of option and algorithm are ignored, never
\* rejected: BreadthFirst given ArcVisitor, OkArcVisitor, Visited or PathBits
\* invokes no arc callback, leaves the bitsets alone and takes the steps,
\* writing the tree and invoking the node visitors, that it takes without
\* them; DepthFirst given From leaves the tree alone and takes the steps it
\* takes without it.
C12_UnsupportedIgnored ==
    /\ []OptionsUntouched
    /\ [][OptionsIgnored]_vars

\* C12 witness: a BreadthFirst given From, Visited and PathBits has returned
\* after reaching a node whose visited bit an earlier DepthFirst had set, with
\* bits set in the path bitset, into the tree that DepthFirst had been given.
C12_Witness ==
    /\ pc = "bfs_ret" /\ cf.visBits /\ cf.pathBits /\ cf.fromList /\ ~Aborted
    /\ pre.pathBits # {}
    /\ \E v \in pre.visBits \ {cf.start} : Reached(v)
    /\ cf.start \in pre.visBits
    /\ Cardinality(At({"NodeVisitor"})) >= 2

=============================================================================
